---- MODULE Spec2Model ----
(***************************************************************************)
(* Route resolution and transfer orchestration of the Wormhole bridge UI.  *)
(*                                                                         *)
(* The model follows the Bridge component (route-selecting version and the *)
(* earlier single-route version), the service functions of wormhole.ts     *)
(* (getTransferQuote, initiateTransfer, ViemWormholeSigner.signAndSend)    *)
(* and the viem-to-ethers adapter's sendTransaction.  Every await of the   *)
(* source is a suspension point and therefore the boundary between two     *)
(* actions; the synchronous code between two awaits is one action, and     *)
(* the React state updates it makes are applied together (batched).        *)
(*                                                                         *)
(* The wallet stays connected (isConnected, address and walletClient are   *)
(* truthy) and the selected token has an address throughout.  The protocol *)
(* SDK and the wallet are the environment: their answers are chosen        *)
(* nondeterministically.  A resolver result holds at most one route of     *)
(* each registered kind.                                                   *)
(*                                                                         *)
(* Spec is the component with the service functions behind it, the form    *)
(* filled in and left alone.  SpecChains and SpecAmount are the            *)
(* route-selecting component with the chain inputs, respectively the       *)
(* amount input, in use.  SpecFormat is formatRoutes (route-helpers.ts)    *)
(* called on its own with route and quote lists of any content, and        *)
(* SpecHelpers the other helpers (sortRoutesByFee, sortRoutesBySpeed, the  *)
(* ETA formatters, parseTimeString, the status type guards of              *)
(* core/types.ts) called on their own.                                     *)
(***************************************************************************)
EXTENDS Integers, Sequences, FiniteSets, TLC

(***************************************************************************)
(* Bounds of the model.                                                    *)
(***************************************************************************)
\* longest route list findRoutes returns
MaxRoutes == 2
\* number of resolver sessions (getTransferQuote calls that return)
MaxSessions == 2
\* longest transaction list route.initiate hands to signAndSend
MaxTxns == 2
\* handler invocations that can be suspended at the same time
MaxFlows == 2
\* longest option list handed to a sort helper
MaxOptions == 3
\* largest whole count of a time unit in the ETAs handed to the formatters
MaxCount == 2

(***************************************************************************)
(* Values.                                                                 *)
(***************************************************************************)
\* wormhole.ts:100-105, the resolver's registration order
ROUTE_PRIORITY ==
  <<"AutomaticCCTPRoute", "CCTPRoute", "AutomaticTokenBridgeRoute", "TokenBridgeRoute">>

RouteKinds == {ROUTE_PRIORITY[i] : i \in 1..Len(ROUTE_PRIORITY)}

FlowIds == 1..MaxFlows

\* a route object that is undefined (an out-of-range array read)
NoRoute == [kind |-> "undefined", session |-> 0]

\* useState<any>(null) for quote
NullQuote == [success |-> FALSE, kind |-> "-", session |-> 0, issuedBy |-> "null", error |-> "-"]

\* useState<RouteOption | null>(null) for selectedRoute
NullOption == [type |-> "null"]

\* useState<any>(null) for routeData
NullRouteData ==
  [allRoutes |-> <<>>, transferRequest |-> 0, requestSource |-> "-",
   allQuotes |-> <<>>, quotedAmount |-> "-", isNull |-> TRUE]

\* a receipt that is undefined
NoReceipt == [originTxs |-> <<>>, hasOriginTxs |-> FALSE, txid |-> 0, hash |-> 0]

\* chains.ts:2-38, CHAINS[id].name
ChainName(id) ==
  CASE id = 1     -> "Ethereum"
    [] id = 137   -> "Polygon"
    [] id = 42161 -> "Arbitrum"
    [] id = 10    -> "Optimism"
    [] id = 8453  -> "Base"
    [] id = 56    -> "BSC"
    [] id = 43114 -> "Avalanche"

\* the chains the user picks from: the two the form starts with
ChainChoices == {8453, 1}

\* the texts the user types into the amount field
AmountTexts == {"", "1", "2"}

\* balance.toString() of a wallet that holds tokens
BalanceText == "2"

\* no error thrown
NoError == [name |-> "-", message |-> "-"]

\* new Error(msg): the error's name is 'Error' whatever the message; errors
\* thrown by the protocol SDK and the wallet are plain errors to this code
JsError(msg) == [name |-> "Error", message |-> msg]

\* what route.quote resolves to; issuedBy names the caller of route.quote
QuoteOf(route, ok, by) ==
  [success |-> ok, kind |-> route.kind, session |-> route.session,
   issuedBy |-> by, error |-> IF ok THEN "-" ELSE "failed"]

\* the route lists resolver.findRoutes can return for session s: the
\* registered kinds that support the request (possibly none), in
\* registration order
KindSeq(S) == SelectSeq(ROUTE_PRIORITY, LAMBDA k : k \in S)

FoundRouteLists(s) ==
  { [i \in 1..Len(KindSeq(S)) |-> [kind |-> KindSeq(S)[i], session |-> s]] :
      S \in {T \in SUBSET RouteKinds : Cardinality(T) <= MaxRoutes} }

\* JavaScript array read arr[j] with a 0-based index; undefined out of range
ArrayAt(arr, j, undef) == IF j + 1 \in DOMAIN arr THEN arr[j + 1] ELSE undef

\* Array.prototype.findIndex(r => r.type === type): first match, else -1
FindIndexByType(options, type) ==
  IF \E i \in DOMAIN options : options[i].type = type
    THEN (CHOOSE i \in DOMAIN options :
            /\ options[i].type = type
            /\ \A j \in DOMAIN options : options[j].type = type => i <= j) - 1
    ELSE -1

(***************************************************************************)
(* route-helpers.ts: formatRoutes and its helpers.  A decimal number is    *)
(* held as an integer count of units of 10^-FeeDigits; a rendered string   *)
(* is held as the record of its parts.                                     *)
(***************************************************************************)
RECURSIVE Pow10(_)
Pow10(n) == IF n = 0 THEN 1 ELSE 10 * Pow10(n - 1)

\* the token decimals of the relay fees considered
FeeDecimals == {6, 8}

\* the finest of them: fee magnitudes are counted in units of 10^-FeeDigits
FeeDigits == CHOOSE d \in FeeDecimals : \A e \in FeeDecimals : e <= d

\* quote.relayFee when the quote carries none (null or undefined)
NoRelayFee == [amount |-> 0, decimals |-> 0, symbol |-> "undefined"]

\* route-helpers.ts:12, quote?.relayFee is truthy
HasRelayFee(q) == "relayFee" \in DOMAIN q /\ q.relayFee # NoRelayFee

\* route-helpers.ts:14, parseFloat(amount) / Math.pow(10, decimals)
FeeMagnitude(relayFee) == relayFee.amount * Pow10(FeeDigits - relayFee.decimals)

\* Number.prototype.toFixed(6): the magnitude rounded to millionths
ToFixed6(magnitude) ==
  LET unit == Pow10(FeeDigits - 6)
  IN (magnitude + unit \div 2) \div unit

\* the string 'Free'
FreeDisplay == [free |-> TRUE, fixed6 |-> 0, symbol |-> ""]

\* route-helpers.ts:17, the string `${feeAmount.toFixed(6)} ${symbol || 'tokens'}`
AmountDisplay(magnitude, symbol) ==
  [free |-> FALSE, fixed6 |-> ToFixed6(magnitude),
   symbol |-> IF symbol # "" THEN symbol ELSE "tokens"]

\* String.prototype.includes
Includes(str, sub) ==
  \E i \in 1..(Len(str) - Len(sub) + 1) : SubSeq(str, i, i + Len(sub) - 1) = sub

\* route-helpers.ts:39-48
getRouteName(routeType) ==
  CASE routeType = "AutomaticCCTPRoute"        -> "Fast CCTP (Automatic)"
    [] routeType = "CCTPRoute"                 -> "Fast CCTP (Manual)"
    [] routeType = "AutomaticTokenBridgeRoute" -> "Token Bridge (Automatic)"
    [] routeType = "TokenBridgeRoute"          -> "Token Bridge (Manual)"
    [] OTHER                                   -> routeType

\* route-helpers.ts:53-62
getRouteDescription(routeType) ==
  CASE routeType = "AutomaticCCTPRoute" ->
         "Fastest delivery with automatic relayer - includes relay fee"
    [] routeType = "CCTPRoute" ->
         "Fast delivery - requires manual claim on destination chain"
    [] routeType = "AutomaticTokenBridgeRoute" ->
         "Automatic delivery via Token Bridge - may take longer"
    [] routeType = "TokenBridgeRoute" ->
         "Cheapest option - requires manual claim and takes ~12+ days"
    [] OTHER -> "Standard bridge route"

\* faulty form: every route is taken for a relayed one
isAutomaticRoute_always(routeType) == TRUE

\* route-helpers.ts:67-69
isAutomaticRoute(routeType) == Includes(routeType, "Automatic")

\* faulty form: a unit is shown only from a count of two on
formatETA_fromTwo(milliseconds) ==
  LET seconds == milliseconds \div 1000
      minutes == seconds \div 60
      hours == minutes \div 60
      days == hours \div 24
  IN IF days > 1 THEN [n |-> days, unit |-> "days"]
     ELSE IF hours > 1 THEN [n |-> hours, unit |-> "hours"]
     ELSE IF minutes > 1 THEN [n |-> minutes, unit |-> "min"]
     ELSE [n |-> seconds, unit |-> "sec"]

\* route-helpers.ts:74-84, the string `~${n} ${unit}`
formatETA(milliseconds) ==
  LET seconds == milliseconds \div 1000
      minutes == seconds \div 60
      hours == minutes \div 60
      days == hours \div 24
  IN IF days > 0 THEN [n |-> days, unit |-> IF days > 1 THEN "days" ELSE "day"]
     ELSE IF hours > 0 THEN [n |-> hours, unit |-> IF hours > 1 THEN "hours" ELSE "hour"]
     ELSE IF minutes > 0 THEN [n |-> minutes, unit |-> "min"]
     ELSE [n |-> seconds, unit |-> "sec"]

\* faulty form: every option is given the first quote
QuoteFor_first(quotes, index) == ArrayAt(quotes, 0, NullQuote)

\* route-helpers.ts:9, quotes[index]
QuoteFor(quotes, index) == ArrayAt(quotes, index, NullQuote)

\* faulty form: a missing relay fee is rendered as a zero amount
FeeDisplay_zero(q) ==
  IF HasRelayFee(q)
    THEN AmountDisplay(FeeMagnitude(q.relayFee), q.relayFee.symbol)
    ELSE AmountDisplay(0, "")

\* route-helpers.ts:16-18
FeeDisplay(q) ==
  IF HasRelayFee(q)
    THEN AmountDisplay(FeeMagnitude(q.relayFee), q.relayFee.symbol)
    ELSE FreeDisplay

\* route-helpers.ts:6-34: one option per route, in route order; index is 0-based
formatRoutes(allRoutes, quotes) ==
  [i \in 1..Len(allRoutes) |->
     LET routeType == allRoutes[i].kind
         q == QuoteFor(quotes, i - 1)
         feeAmount == IF HasRelayFee(q) THEN FeeMagnitude(q.relayFee) ELSE 0
         eta == IF "eta" \in DOMAIN q THEN q.eta ELSE 0
     IN [type |-> routeType,
         name |-> getRouteName(routeType),
         description |-> getRouteDescription(routeType),
         fee |-> FeeDisplay(q),
         feeAmount |-> feeAmount,
         estimatedTime |-> formatETA(eta),
         isAutomatic |-> isAutomaticRoute(routeType)]]

(***************************************************************************)
(* route-helpers.ts: the sort helpers and the parser of formatted ETAs.    *)
(***************************************************************************)
\* the value JavaScript's Infinity stands for here: above every parsed time
Infinity == 2147483647

\* an estimatedTime string that does not have the shape ~<digits><word>
Unparsable == [n |-> -1, unit |-> ""]

\* route-helpers.ts:109-116, multipliers[unit] || 1
Multiplier(unit) ==
  CASE unit = "sec"   -> 1
    [] unit = "min"   -> 60
    [] unit = "hour"  -> 3600
    [] unit = "hours" -> 3600
    [] unit = "day"   -> 86400
    [] unit = "days"  -> 86400
    [] OTHER          -> 1

\* faulty form: the plural unit words are missing from the table
parseTimeString_singular(timeStr) ==
  IF timeStr = Unparsable THEN Infinity
  ELSE timeStr.n * (IF timeStr.unit \in {"hours", "days"} THEN 1 ELSE Multiplier(timeStr.unit))

\* route-helpers.ts:102-119, the seconds a formatted time stands for
parseTimeString(timeStr) ==
  IF timeStr = Unparsable THEN Infinity
  ELSE timeStr.n * Multiplier(timeStr.unit)

\* [...routes]: a new array with the same elements
Spread(routes) == [i \in 1..Len(routes) |-> routes[i]]

\* insertion of the elements 1..n of an array, one after the other, each
\* behind every element that does not compare greater; c[i][j] is the
\* comparator's result for elements i and j
RECURSIVE SortOrder(_, _)
SortOrder(c, n) ==
  IF n = 0 THEN <<>>
  ELSE LET before == SortOrder(c, n - 1)
       IN SelectSeq(before, LAMBDA k : c[k][n] <= 0) \o <<n>>
          \o SelectSeq(before, LAMBDA k : c[k][n] > 0)

\* Array.prototype.sort(compareFn), a stable sort since ES2019; compared[i][j]
\* is what compareFn returns for the elements i and j of the array
ArraySort(arr, compared) ==
  LET order == SortOrder(compared, Len(arr))
  IN [p \in 1..Len(arr) |-> arr[order[p]]]

\* faulty form: the larger fee compares smaller
CompareFee_descending(a, b) == b.feeAmount - a.feeAmount

\* route-helpers.ts:90, (a, b) => a.feeAmount - b.feeAmount
CompareFee(a, b) == a.feeAmount - b.feeAmount

\* faulty form: the numbers of the two strings are compared, whatever the unit
CompareSpeed_number(a, b) == a.estimatedTime.n - b.estimatedTime.n

\* route-helpers.ts:94-99
CompareSpeed(a, b) ==
  LET aTime == parseTimeString(a.estimatedTime)
      bTime == parseTimeString(b.estimatedTime)
  IN aTime - bTime

\* route-helpers.ts:89-91
sortRoutesByFee(routes) ==
  LET copy == Spread(routes)
  IN ArraySort(copy, [i \in DOMAIN copy |-> [j \in DOMAIN copy |->
                        CompareFee(copy[i], copy[j])]])

\* route-helpers.ts:93-100
sortRoutesBySpeed(routes) ==
  LET copy == Spread(routes)
  IN ArraySort(copy, [i \in DOMAIN copy |-> [j \in DOMAIN copy |->
                        CompareSpeed(copy[i], copy[j])]])

(***************************************************************************)
(* The ETA line of the preview panel (Navbar.tsx:584-595) and the status   *)
(* type guards of core/types.ts.                                           *)
(***************************************************************************)
\* Navbar.tsx:584-595 (Bridge.tsx:396-407), the string `~${n} ${unit}`
previewETA(eta) ==
  LET seconds == eta \div 1000
      minutes == seconds \div 60
      hours == minutes \div 60
      days == hours \div 24
  IN IF days > 0 THEN [n |-> days, unit |-> IF days > 1 THEN "days" ELSE "day"]
     ELSE IF hours > 0 THEN [n |-> hours, unit |-> IF hours > 1 THEN "hours" ELSE "hour"]
     ELSE IF minutes > 0
       THEN [n |-> minutes, unit |-> IF minutes > 1 THEN "minutes" ELSE "minute"]
     ELSE [n |-> seconds, unit |-> IF seconds > 1 THEN "seconds" ELSE "second"]

\* core/types.ts:150-161
TransferStatus ==
  {"pending", "approving", "approved", "transferring", "relaying", "attesting",
   "claiming", "completed", "failed", "cancelled"}

\* core/types.ts:370-372
isTransferComplete(status) == status = "completed"

\* core/types.ts:374-383
isTransferPending(status) ==
  status \in {"pending", "approving", "transferring", "relaying", "attesting", "claiming"}

\* core/types.ts:385-387
isTransferFailed(status) == status \in {"failed", "cancelled"}

(***************************************************************************)
(* State.                                                                  *)
(***************************************************************************)
VARIABLES
  variant,          \* which Bridge component is mounted: "routes" or "legacy"
  isTransferring,   \* useState(false)
  transferStatus,   \* useState('') status line
  quote,            \* useState<any>(null)
  showPreview,      \* useState(false)
  availableRoutes,  \* useState<RouteOption[]>([])
  selectedRoute,    \* useState<RouteOption | null>(null)
  routeData,        \* useState<any>(null)
  sessions,         \* resolver sessions created so far
  flows,            \* suspended handler invocations and their locals
  sourceChain,      \* useState<ChainId>(8453)
  destChain,        \* useState<ChainId>(1)
  amount,           \* useState('') the text of the amount input
  fmtPc,            \* a formatRoutes call on its own: "idle", "called", "returned"
  fmtRoutes,        \* its argument allRoutes
  fmtQuotes,        \* its argument quotes
  fmtOptions,       \* its result
  callPc,           \* a helper function call on its own: "idle", "called", "returned"
  callFn,           \* the helper called
  callArg,          \* its argument, as the caller holds it
  callResult        \* its result

uiVars == <<isTransferring, transferStatus, quote, showPreview,
            availableRoutes, selectedRoute, routeData>>

\* a formatRoutes call outside the component
fmtVars == <<fmtPc, fmtRoutes, fmtQuotes, fmtOptions>>

\* a call of one of the other exported helpers outside the component
helperVars == <<callPc, callFn, callArg, callResult>>

pureVars == <<fmtVars, helperVars>>

\* the form inputs of the component
inputVars == <<sourceChain, destChain, amount>>

vars == <<variant, isTransferring, transferStatus, quote, showPreview,
          availableRoutes, selectedRoute, routeData, sessions, flows,
          sourceChain, destChain, amount,
          fmtPc, fmtRoutes, fmtQuotes, fmtOptions,
          callPc, callFn, callArg, callResult>>

Status(m) == [msg |-> m, txHash |-> 0]

\* the locals of one handler invocation
FreeFlow ==
  [pc |-> "free", handler |-> "-", gq |-> "-", rcalls |-> <<>>,
   allRoutes |-> <<>>, request |-> 0, tasks |-> <<>>,
   route |-> NoRoute, shownQuote |-> NullQuote,
   validated |-> "-", itQuote |-> NullQuote, initiateQuote |-> NullQuote,
   calls |-> <<>>,
   txns |-> <<>>, sends |-> <<>>, adapterCalls |-> <<>>, startOrder |-> <<>>,
   txids |-> <<>>,
   thrown |-> NoError, failedAt |-> "-", failedTx |-> 0,
   receipt |-> NoReceipt, loggedTxHash |-> 0,
   sourceChainName |-> "-", amount |-> "-", requestSource |-> "-",
   shownAmount |-> "-", signerChain |-> "-", itAmount |-> "-"]

\* the lowest free slot holds the next handler invocation
IsNextFree(f) ==
  /\ flows[f].pc = "free"
  /\ \A g \in FlowIds : flows[g].pc = "free" => f <= g

\* the component before any click
InitBridge ==
  /\ isTransferring = FALSE
  /\ transferStatus = Status("")
  /\ quote = NullQuote
  /\ showPreview = FALSE
  /\ availableRoutes = <<>>
  /\ selectedRoute = NullOption
  /\ routeData = NullRouteData
  /\ sessions = 0
  /\ flows = [f \in FlowIds |-> FreeFlow]

\* no formatRoutes call outside the component
FmtIdle ==
  /\ fmtPc = "idle"
  /\ fmtRoutes = <<>>
  /\ fmtQuotes = <<>>
  /\ fmtOptions = <<>>

\* no other helper call outside the component
HelperIdle ==
  /\ callPc = "idle"
  /\ callFn = "-"
  /\ callArg = <<>>
  /\ callResult = <<>>

\* Navbar.tsx:184-187 (Bridge.tsx:23-26): the chains are the initial ones; the
\* amount field, initially empty, holds what the user typed
FormFilled ==
  /\ sourceChain = 8453
  /\ destChain = 1
  /\ amount = "1"

Init ==
  /\ variant \in {"routes", "legacy"}
  /\ InitBridge
  /\ FormFilled
  /\ FmtIdle
  /\ HelperIdle

(***************************************************************************)
(* Quote aggregation, getQuotesForAllRoutes (quoteAll).  One task per      *)
(* route runs validate and then quote; the tasks are all started before    *)
(* any is awaited.                                                         *)
(***************************************************************************)
\* the result slot of a task that failed
FailedSlot(route) ==
  [success |-> FALSE, kind |-> route.kind, session |-> route.session,
   issuedBy |-> "aggregate", error |-> "failed"]

\* fire all: every route's task starts at its validate call
StartTasks(routes) ==
  [i \in 1..Len(routes) |-> [pc |-> "validate", calls |-> <<"validate">>, validated |-> "-",
                          result |-> NullQuote]]

\* a task after validate answered
AfterValidate(task, route, outcome) ==
  CASE outcome = "valid"   -> [task EXCEPT !.pc = "quote", !.validated = outcome,
                                           !.calls = Append(@, "quote")]
    [] outcome = "invalid" -> [task EXCEPT !.pc = "settled", !.validated = outcome,
                                           !.result = FailedSlot(route)]
    [] outcome = "threw"   -> [task EXCEPT !.pc = "settled", !.validated = outcome,
                                           !.result = FailedSlot(route)]

\* a task after quote answered
AfterQuote(task, route, outcome) ==
  CASE outcome = "ok"           -> [task EXCEPT !.pc = "settled", !.result = QuoteOf(route, TRUE, "aggregate")]
    [] outcome = "unsuccessful" -> [task EXCEPT !.pc = "settled", !.result = QuoteOf(route, FALSE, "aggregate")]
    [] outcome = "threw"        -> [task EXCEPT !.pc = "settled", !.result = FailedSlot(route)]

\* faulty form: the aggregate resolves as soon as one task has settled
AllSettled_first(tasks) == \E i \in DOMAIN tasks : tasks[i].pc = "settled"

\* await all: the aggregate resolves once every task has settled
AllSettled(tasks) == \A i \in DOMAIN tasks : tasks[i].pc = "settled"

\* faulty form: failed results are filtered out of the aggregate
AggregateResult_filtered(tasks) ==
  SelectSeq([i \in 1..Len(tasks) |-> tasks[i].result], LAMBDA q : q.success)

\* the aggregate: slot i is the result of route i
AggregateResult(tasks) == [i \in 1..Len(tasks) |-> tasks[i].result]

(***************************************************************************)
(* getTransferQuote (wormhole.ts:81-230), called by the preview handlers   *)
(* and by the single-route confirm handler.  gq is the awaited SDK call,   *)
(* rcalls the SDK calls made so far by this invocation.                    *)
(***************************************************************************)
\* the answers of resolver.supportedDestinationTokens
DestTokenLists == {<<>>, <<"destToken">>}

\* wormhole.ts:161
NoDestTokens(destTokens) == Len(destTokens) = 0

\* faulty form: an empty route list is returned like any other
NoRoutesFound_unchecked(foundRoutes) == FALSE

\* wormhole.ts:217
NoRoutesFound(foundRoutes) == Len(foundRoutes) = 0

\* wormhole.ts:224-229: the error is logged and rethrown unchanged; it lands
\* in the catch block of the handler that awaits getTransferQuote
GqThrown(fl, step, err) ==
  [fl EXCEPT !.pc = IF fl.handler = "preview" THEN "pv_catch" ELSE "cf_catch",
             !.gq = "-", !.failedAt = step, !.thrown = err]

\* wormhole.ts:95-154: initWormhole returned; the resolver, the chain
\* contexts and the token id are built, supportedDestinationTokens is called
WormholeInitialized(f) ==
  /\ flows[f].gq = "initWormhole"
  /\ flows' = [flows EXCEPT ![f].gq = "supportedDestinationTokens",
                            ![f].rcalls = <<"supportedDestinationTokens">>]
  /\ UNCHANGED <<pureVars, inputVars, variant, uiVars, sessions>>

\* wormhole.ts:154-183: supportedDestinationTokens answers; parsed is the
\* number of addresses parseAddress accepts before it throws (2: both)
DestTokensReturn(f, destTokens, parsed) ==
  /\ flows[f].gq = "supportedDestinationTokens"
  /\ destTokens \in DestTokenLists
  /\ parsed \in 0..2
  /\ flows' = [flows EXCEPT ![f] =
       IF NoDestTokens(destTokens)
         THEN GqThrown(@, "destTokens", JsError("No supported destination tokens found"))
       ELSE IF parsed < 2
         THEN GqThrown([@ EXCEPT !.rcalls = @ \o [k \in 1..(parsed + 1) |-> "parseAddress"]],
                       "parseAddress", JsError("parseAddress threw"))
       ELSE [@ EXCEPT !.gq = "RouteTransferRequest.create",
                      !.rcalls = @ \o <<"parseAddress", "parseAddress",
                                        "RouteTransferRequest.create">>]]
  /\ UNCHANGED <<pureVars, inputVars, variant, uiVars, sessions>>

\* wormhole.ts:180-200: the request is created, sender and receiver are set
\* on it, findRoutes is called
RequestCreated(f) ==
  /\ flows[f].gq = "RouteTransferRequest.create"
  /\ flows' = [flows EXCEPT ![f].gq = "findRoutes",
                            ![f].requestSource = flows[f].sourceChainName,
                            ![f].rcalls = Append(@, "findRoutes")]
  /\ UNCHANGED <<pureVars, inputVars, variant, uiVars, sessions>>

\* wormhole.ts:217-219: findRoutes answered with no route
NoRoutesThrows(f) ==
  /\ flows[f].gq = "findRoutes"
  /\ NoRoutesFound(<<>>)
  /\ flows' = [flows EXCEPT ![f] =
       GqThrown(@, "noRoutes", JsError("No routes found for this transfer"))]
  /\ UNCHANGED <<pureVars, inputVars, variant, uiVars, sessions>>

\* wormhole.ts:95, 156-159, 190-193, 212-215: the awaited SDK call rejects
GetTransferQuoteThrows(f) ==
  /\ flows[f].gq # "-"
  /\ flows' = [flows EXCEPT ![f] =
       GqThrown(@, flows[f].gq, JsError("SDK call threw"))]
  /\ UNCHANGED <<pureVars, inputVars, variant, uiVars, sessions>>

(***************************************************************************)
(* Bridge component with route selection: handlePreviewTransaction.        *)
(***************************************************************************)
\* Navbar.tsx:511-514, the Preview button is rendered and not disabled
PreviewEnabled == ~showPreview /\ amount # "" /\ ~isTransferring

\* Navbar.tsx:332-335, the quote state with the route type attached
WithRouteType(q, t) ==
  [success |-> q.success, kind |-> q.kind, session |-> q.session,
   issuedBy |-> q.issuedBy, error |-> q.error, routeType |-> t]

\* Navbar.tsx:256-297 (Bridge.tsx:93-134), up to the await of getTransferQuote
PreviewClick(f) ==
  /\ PreviewEnabled
  /\ IsNextFree(f)
  /\ isTransferring' = TRUE
  /\ transferStatus' = Status("Getting route quote...")
  /\ flows' = [flows EXCEPT ![f] =
       [FreeFlow EXCEPT !.pc = "pv_resolve", !.handler = "preview",
                        !.sourceChainName = ChainName(sourceChain),
                        !.amount = amount,
                        !.gq = "initWormhole"]]
  /\ UNCHANGED <<pureVars, inputVars, variant, quote, showPreview, availableRoutes,
                 selectedRoute, routeData, sessions>>

\* wormhole.ts:81-223 returns; Navbar.tsx:299-307 starts the aggregation
PreviewRoutesResolved(f, routes) ==
  /\ variant = "routes"
  /\ flows[f].pc = "pv_resolve"
  /\ flows[f].gq = "findRoutes"
  /\ sessions < MaxSessions
  /\ routes \in FoundRouteLists(sessions + 1)
  /\ ~NoRoutesFound(routes)
  /\ sessions' = sessions + 1
  /\ transferStatus' = Status("Getting quotes for all routes...")
  /\ flows' = [flows EXCEPT ![f].pc = "pv_quotes",
                            ![f].gq = "-",
                            ![f].allRoutes = routes,
                            ![f].route = ArrayAt(routes, 0, NoRoute),
                            ![f].request = sessions + 1,
                            ![f].tasks = StartTasks(routes)]
  /\ UNCHANGED <<pureVars, inputVars, variant, isTransferring, quote, showPreview,
                 availableRoutes, selectedRoute, routeData>>

\* Navbar.tsx:343-348 (Bridge.tsx:177-182): the preview handler's catch block
\* after getTransferQuote threw
PreviewResolveThrows(f) ==
  /\ flows[f].pc = "pv_catch"
  /\ transferStatus' = Status("Error")
  /\ isTransferring' = FALSE
  /\ flows' = [flows EXCEPT ![f] = FreeFlow]
  /\ UNCHANGED <<pureVars, inputVars, variant, quote, showPreview, availableRoutes,
                 selectedRoute, routeData, sessions>>

\* route.validate of task i answers
AggValidateReturns(f, i, outcome) ==
  /\ flows[f].pc = "pv_quotes"
  /\ i \in DOMAIN flows[f].tasks
  /\ flows[f].tasks[i].pc = "validate"
  /\ flows' = [flows EXCEPT ![f].tasks[i] =
       AfterValidate(flows[f].tasks[i], flows[f].allRoutes[i], outcome)]
  /\ UNCHANGED <<pureVars, inputVars, variant, uiVars, sessions>>

\* route.quote of task i answers
AggQuoteReturns(f, i, outcome) ==
  /\ flows[f].pc = "pv_quotes"
  /\ i \in DOMAIN flows[f].tasks
  /\ flows[f].tasks[i].pc = "quote"
  /\ flows' = [flows EXCEPT ![f].tasks[i] =
       AfterQuote(flows[f].tasks[i], flows[f].allRoutes[i], outcome)]
  /\ UNCHANGED <<pureVars, inputVars, variant, uiVars, sessions>>

\* Navbar.tsx:309-338, the aggregate resolved
PreviewQuotesReturn(f) ==
  /\ flows[f].pc = "pv_quotes"
  /\ AllSettled(flows[f].tasks)
  /\ LET allRoutes == flows[f].allRoutes
         allQuotes == AggregateResult(flows[f].tasks)
         formattedRoutes == formatRoutes(allRoutes, allQuotes)
         defaultQuote == ArrayAt(allQuotes, 0, NullQuote)
     IN /\ availableRoutes' = formattedRoutes
        /\ selectedRoute' = ArrayAt(formattedRoutes, 0, NullOption)
        /\ routeData' = [allRoutes |-> allRoutes, transferRequest |-> flows[f].request,
                         requestSource |-> flows[f].requestSource,
                         allQuotes |-> allQuotes, quotedAmount |-> flows[f].amount,
                         isNull |-> FALSE]
        /\ IF defaultQuote = NullQuote \/ ~defaultQuote.success
             THEN /\ transferStatus' = Status("Failed to get quote")
                  /\ UNCHANGED <<quote, showPreview, isTransferring>>
             ELSE /\ quote' = WithRouteType(defaultQuote, flows[f].route.kind)
                  /\ showPreview' = TRUE
                  /\ transferStatus' = Status("Review the transaction details and select a route")
                  /\ isTransferring' = FALSE
  /\ flows' = [flows EXCEPT ![f] = FreeFlow]
  /\ UNCHANGED <<pureVars, inputVars, variant, sessions>>

(***************************************************************************)
(* Preview panel: route selection and Cancel.                              *)
(***************************************************************************)
\* Navbar.tsx:522, the preview panel is rendered
PanelShown == showPreview /\ quote # NullQuote

\* Navbar.tsx:530-540, onSelectRoute with the i-th listed option
SelectRoute(i) ==
  /\ variant = "routes"
  /\ PanelShown
  /\ i \in DOMAIN availableRoutes
  /\ LET route == availableRoutes[i]
         routeIndex == FindIndexByType(availableRoutes, route.type)
         stored == ArrayAt(routeData.allQuotes, routeIndex, NullQuote)
     IN /\ selectedRoute' = route
        /\ IF routeIndex >= 0 /\ stored # NullQuote
             THEN quote' = WithRouteType(stored, route.type)
             ELSE UNCHANGED quote
  /\ UNCHANGED <<pureVars, inputVars, variant, isTransferring, transferStatus, showPreview,
                 availableRoutes, routeData, sessions, flows>>

\* Navbar.tsx:636-642
Cancel ==
  /\ PanelShown
  /\ ~isTransferring
  /\ showPreview' = FALSE
  /\ quote' = NullQuote
  /\ transferStatus' = Status("")
  /\ UNCHANGED <<pureVars, inputVars, variant, isTransferring, availableRoutes, selectedRoute,
                 routeData, sessions, flows>>

(***************************************************************************)
(* Bridge component with route selection: handleConfirmTransfer.           *)
(***************************************************************************)
\* faulty form: the Confirm button is not disabled during a transfer
ConfirmEnabled_always == showPreview /\ quote # NullQuote

\* Navbar.tsx:627-629, the Confirm button is rendered and not disabled
ConfirmEnabled == PanelShown /\ ~isTransferring

\* faulty form: the default route is used whatever the selection
SelectedRouteObject_default(options, selected, data) == ArrayAt(data.allRoutes, 0, NoRoute)

\* Navbar.tsx:370-371, the route object of the selected option
SelectedRouteObject(options, selected, data) ==
  ArrayAt(data.allRoutes, FindIndexByType(options, selected.type), NoRoute)

\* Navbar.tsx:351-378, up to the await of createWormholeSigner
ConfirmClick(f) ==
  /\ variant = "routes"
  /\ ConfirmEnabled
  /\ IsNextFree(f)
  /\ IF routeData.isNull \/ selectedRoute = NullOption
       THEN /\ transferStatus' = Status("Please select a route first")
            /\ isTransferring' = FALSE
            /\ UNCHANGED flows
       ELSE /\ transferStatus' = Status("Waiting for wallet approval...")
            /\ isTransferring' = TRUE
            /\ flows' = [flows EXCEPT ![f] =
                 [FreeFlow EXCEPT !.pc = "cf_signer", !.handler = "confirm",
                                  !.route = SelectedRouteObject(availableRoutes, selectedRoute, routeData),
                                  !.request = routeData.transferRequest,
                                  !.requestSource = routeData.requestSource,
                                  !.sourceChainName = ChainName(sourceChain),
                                  !.amount = amount,
                                  !.shownAmount = routeData.quotedAmount,
                                  !.shownQuote = quote]]
  /\ UNCHANGED <<pureVars, inputVars, variant, quote, showPreview, availableRoutes,
                 selectedRoute, routeData, sessions>>

(***************************************************************************)
(* initiateTransfer (wormhole.ts:235-329).                                 *)
(***************************************************************************)
\* faulty form: the validation result is not checked
ValidatedOk_unchecked(outcome) == TRUE

\* wormhole.ts:265, the validation result is accepted
ValidatedOk(outcome) == outcome = "valid"

\* wormhole.ts:281, the quote is accepted
QuoteOk(q) == q.success

\* faulty form: the quote shown in the preview is passed on
InitiateQuote_shown(fl) == fl.shownQuote

\* wormhole.ts:307, the quote argument of route.initiate
InitiateQuote(fl) == fl.itQuote

\* wormhole.ts:260-263, 276-279, 317-320, 323-328: log and rethrow to the caller
Rethrown(fl, step, err) ==
  [fl EXCEPT !.pc = "cf_catch", !.failedAt = step, !.thrown = err]

\* Navbar.tsx:378-389: the signer is created, initiateTransfer is called and
\* calls route.validate (wormhole.ts:244-258)
SignerCreated(f) ==
  /\ flows[f].pc = "cf_signer"
  /\ transferStatus' = Status("Step 1/2: Approving token...")
  /\ flows' = [flows EXCEPT ![f].pc = "it_validate", ![f].calls = <<"validate">>,
                            ![f].signerChain = flows[f].sourceChainName,
                            ![f].itAmount = flows[f].amount]
  /\ UNCHANGED <<pureVars, inputVars, variant, isTransferring, quote, showPreview,
                 availableRoutes, selectedRoute, routeData, sessions>>

\* wormhole.ts:258-274, route.validate answers
ItValidateReturns(f, outcome) ==
  /\ flows[f].pc = "it_validate"
  /\ flows[f].route = NoRoute => outcome = "threw"
  /\ LET fl == [flows[f] EXCEPT !.validated = outcome]
     IN flows' = [flows EXCEPT ![f] =
          IF outcome = "threw"
            THEN Rethrown(fl, "validate", JsError("validate threw"))
          ELSE IF ~ValidatedOk(outcome)
            THEN Rethrown(fl, "validate", JsError("Transfer validation failed"))
          ELSE [fl EXCEPT !.pc = "it_quote", !.calls = Append(@, "quote")]]
  /\ UNCHANGED <<pureVars, inputVars, variant, uiVars, sessions>>

\* wormhole.ts:274-307, route.quote answers
ItQuoteReturns(f, outcome) ==
  /\ flows[f].pc = "it_quote"
  /\ LET q == QuoteOf(flows[f].route, outcome = "ok", "initiateTransfer")
         fl == IF outcome = "threw" THEN flows[f] ELSE [flows[f] EXCEPT !.itQuote = q]
     IN flows' = [flows EXCEPT ![f] =
          IF outcome = "threw"
            THEN Rethrown(fl, "quote", JsError("quote threw"))
          ELSE IF ~QuoteOk(q)
            THEN Rethrown(fl, "quote", JsError("Failed to get quote"))
          ELSE [fl EXCEPT !.pc = "it_initiate", !.calls = Append(@, "initiate"),
                          !.initiateQuote = InitiateQuote(fl)]]
  /\ UNCHANGED <<pureVars, inputVars, variant, uiVars, sessions>>

(***************************************************************************)
(* route.initiate drives ViemWormholeSigner.signAndSend (wormhole.ts:26-39)*)
(* which calls the adapter's sendTransaction (viem-ethers adapter, 80-116).*)
(***************************************************************************)
\* the transactions of a transfer: approvals first, the transfer last
Txns(n) == [i \in 1..n |-> IF i = n THEN "transfer" ELSE "approve"]

\* the hash the wallet returns for the i-th transaction
Hash(i) == i

\* faulty form: the sends are all started at once (txns.map with Promise.all)
NextToSend_parallel(fl, i) == TRUE

\* wormhole.ts:30-36, the loop body for transaction i starts: every earlier
\* iteration has pushed its hash and no send is awaited
NextToSend(fl, i) ==
  /\ i = Len(fl.txids) + 1
  /\ \A j \in DOMAIN fl.sends : fl.sends[j] \notin {"wallet", "receipt"}

\* faulty form: a rejected send is caught and the loop goes on
SendFailed_continue(fl, i, err) ==
  [fl EXCEPT !.sends[i] = "failed", !.failedTx = i, !.txids = Append(@, 0)]

\* wormhole.ts:34, a rejected send is not caught: the loop ends and the
\* wallet's error reaches the caller of signAndSend unchanged
SendFailed(fl, i, err) ==
  [fl EXCEPT !.sends[i] = "failed", !.failedTx = i,
             !.pc = "cf_catch", !.failedAt = "initiate", !.thrown = err]

\* route.initiate throws before it calls the signer
InitiateThrows(f) ==
  /\ flows[f].pc = "it_initiate"
  /\ flows' = [flows EXCEPT ![f] =
       Rethrown(flows[f], "initiate", JsError("initiate threw"))]
  /\ UNCHANGED <<pureVars, inputVars, variant, uiVars, sessions>>

\* route.initiate calls signer.signAndSend(txns) with n transactions
SignAndSendCalled(f, n) ==
  /\ flows[f].pc = "it_initiate"
  /\ n \in 1..MaxTxns
  /\ flows' = [flows EXCEPT ![f].pc = "sa_loop",
                            ![f].txns = Txns(n),
                            ![f].sends = [i \in 1..n |-> "new"]]
  /\ UNCHANGED <<pureVars, inputVars, variant, uiVars, sessions>>

\* adapter 118-122: signTransaction asks the wallet for nothing and throws
SignTransactionError == JsError("signTransaction not supported")

\* a call of one of the adapter's methods, by signAndSend or by the SDK
AdapterCall(caller, method) == [caller |-> caller, method |-> method]

\* faulty form: signAndSend asks the adapter for a detached signature
SignAndSendMethod_sign == "signTransaction"

\* wormhole.ts:34, the adapter method signAndSend invokes
SignAndSendMethod == "sendTransaction"

\* wormhole.ts:34 and adapter 80-94: the loop body calls the adapter, whose
\* sendTransaction calls walletClient.sendTransaction
SendStart(f, i) ==
  /\ flows[f].pc = "sa_loop"
  /\ i \in DOMAIN flows[f].txns
  /\ flows[f].sends[i] = "new"
  /\ NextToSend(flows[f], i)
  /\ LET fl == [flows[f] EXCEPT
                 !.adapterCalls = Append(@, AdapterCall("signAndSend", SignAndSendMethod))]
     IN flows' = [flows EXCEPT ![f] =
          IF SignAndSendMethod = "sendTransaction"
            THEN [fl EXCEPT !.sends[i] = "wallet", !.startOrder = Append(@, i)]
            ELSE SendFailed(fl, i, SignTransactionError)]
  /\ UNCHANGED <<pureVars, inputVars, variant, uiVars, sessions>>

\* adapter 118-122: route.initiate itself calls the adapter's signTransaction,
\* before it calls signAndSend or after signAndSend returned
SignTransactionCalled(f) ==
  /\ \/ flows[f].pc = "it_initiate"
     \/ flows[f].pc = "sa_loop" /\ Len(flows[f].txids) = Len(flows[f].txns)
  /\ flows' = [flows EXCEPT ![f] =
       Rethrown([@ EXCEPT !.adapterCalls = Append(@, AdapterCall("sdk", "signTransaction"))],
                "initiate", SignTransactionError)]
  /\ UNCHANGED <<pureVars, inputVars, variant, uiVars, sessions>>

\* adapter 84-101: the wallet returns the hash, or rejects
WalletReturns(f, i, ok) ==
  /\ flows[f].pc = "sa_loop"
  /\ i \in DOMAIN flows[f].sends
  /\ flows[f].sends[i] = "wallet"
  /\ flows' = [flows EXCEPT ![f] =
       IF ok THEN [@ EXCEPT !.sends[i] = "receipt"]
             ELSE SendFailed(@, i, JsError("User rejected the request"))]
  /\ UNCHANGED <<pureVars, inputVars, variant, uiVars, sessions>>

\* adapter 101-116 and wormhole.ts:35: the receipt wait ends; the receipt's
\* status is not inspected, the hash is pushed
ReceiptReturns(f, i, outcome) ==
  /\ flows[f].pc = "sa_loop"
  /\ i \in DOMAIN flows[f].sends
  /\ flows[f].sends[i] = "receipt"
  /\ flows' = [flows EXCEPT ![f] =
       IF outcome = "threw"
         THEN SendFailed(@, i, JsError("receipt wait failed"))
         ELSE [@ EXCEPT !.sends[i] = outcome, !.txids = Append(@, Hash(i))]]
  /\ UNCHANGED <<pureVars, inputVars, variant, uiVars, sessions>>

\* the receipts route.initiate can build from the submitted hashes
Receipts(txids) ==
  LET last == txids[Len(txids)]
  IN { [hasOriginTxs |-> TRUE, originTxs |-> o, txid |-> t, hash |-> x] :
         o \in {<<>>, txids}, t \in {0, last}, x \in {0, last} }
     \cup
     { [hasOriginTxs |-> FALSE, originTxs |-> <<>>, txid |-> t, hash |-> x] :
         t \in {0, last}, x \in {0, last} }

\* wormhole.ts:314, the hash initiateTransfer extracts and logs
ExtractTxHashInitiate(receipt) ==
  LET first == IF receipt.hasOriginTxs THEN ArrayAt(receipt.originTxs, 0, 0) ELSE 0
  IN IF first # 0 THEN first
     ELSE IF receipt.txid # 0 THEN receipt.txid
     ELSE receipt.hash

\* Navbar.tsx:396-399, the hash the route-selecting Bridge extracts; -1 is 'unknown'
ExtractTxHashBridge(receipt) ==
  LET originTxs == IF receipt.hasOriginTxs THEN receipt.originTxs ELSE <<>>
  IN IF Len(originTxs) > 0 THEN originTxs[Len(originTxs)]
     ELSE IF receipt.txid # 0 THEN receipt.txid
     ELSE IF receipt.hash # 0 THEN receipt.hash
     ELSE -1

\* Bridge.tsx:232, the hash the single-route Bridge extracts; -1 is 'unknown'
ExtractTxHashLegacy(receipt) ==
  LET first == IF receipt.hasOriginTxs THEN ArrayAt(receipt.originTxs, 0, 0) ELSE 0
  IN IF first # 0 THEN first
     ELSE IF receipt.txid # 0 THEN receipt.txid
     ELSE IF receipt.hash # 0 THEN receipt.hash
     ELSE -1

\* wormhole.ts:36-38 and 307-322: the loop is over, signAndSend returns the
\* hashes, route.initiate returns its receipt, initiateTransfer logs the
\* extracted hash and returns the receipt
InitiateReturns(f) ==
  /\ flows[f].pc = "sa_loop"
  /\ Len(flows[f].txids) = Len(flows[f].txns)
  /\ \E receipt \in Receipts(flows[f].txids) :
       flows' = [flows EXCEPT ![f].pc = "cf_receipt",
                              ![f].receipt = receipt,
                              ![f].loggedTxHash = ExtractTxHashInitiate(receipt)]
  /\ UNCHANGED <<pureVars, inputVars, variant, uiVars, sessions>>

\* Navbar.tsx:391-413 and 418-420 (Bridge.tsx:229-246 and 251-253)
ConfirmSucceeds(f) ==
  /\ flows[f].pc = "cf_receipt"
  /\ transferStatus' =
       [msg |-> "Transfer initiated!",
        txHash |-> IF variant = "routes" THEN ExtractTxHashBridge(flows[f].receipt)
                                         ELSE ExtractTxHashLegacy(flows[f].receipt)]
  /\ quote' = NullQuote
  /\ isTransferring' = FALSE
  /\ flows' = [flows EXCEPT ![f] = FreeFlow]
  /\ UNCHANGED <<pureVars, inputVars, variant, showPreview, availableRoutes, selectedRoute,
                 routeData, sessions>>

\* Navbar.tsx:415-420 (Bridge.tsx:248-253)
ConfirmCatch(f) ==
  /\ flows[f].pc = "cf_catch"
  /\ transferStatus' = Status("Error")
  /\ isTransferring' = FALSE
  /\ flows' = [flows EXCEPT ![f] = FreeFlow]
  /\ UNCHANGED <<pureVars, inputVars, variant, quote, showPreview, availableRoutes,
                 selectedRoute, routeData, sessions>>

(***************************************************************************)
(* Single-route Bridge component (Bridge.tsx): it previews the default     *)
(* route only and resolves the routes again on confirm.                    *)
(***************************************************************************)
\* Bridge.tsx:136-147: getTransferQuote returned, validate of the default route is called
LegacyPreviewResolved(f, routes) ==
  /\ variant = "legacy"
  /\ flows[f].pc = "pv_resolve"
  /\ flows[f].gq = "findRoutes"
  /\ sessions < MaxSessions
  /\ routes \in FoundRouteLists(sessions + 1)
  /\ ~NoRoutesFound(routes)
  /\ sessions' = sessions + 1
  /\ quote' = NullQuote
  /\ transferStatus' = Status("Getting quote...")
  /\ flows' = [flows EXCEPT ![f].pc = "lp_validate",
                            ![f].gq = "-",
                            ![f].allRoutes = routes,
                            ![f].route = ArrayAt(routes, 0, NoRoute),
                            ![f].request = sessions + 1]
  /\ UNCHANGED <<pureVars, inputVars, variant, isTransferring, showPreview,
                 availableRoutes, selectedRoute, routeData>>

\* Bridge.tsx:147-154 and 177-182, route.validate answers
LegacyPreviewValidateReturns(f, outcome) ==
  /\ flows[f].pc = "lp_validate"
  /\ CASE outcome = "valid" ->
            /\ flows' = [flows EXCEPT ![f].pc = "lp_quote"]
            /\ UNCHANGED <<transferStatus, isTransferring>>
       [] outcome = "invalid" ->
            /\ transferStatus' = Status("Validation failed")
            /\ flows' = [flows EXCEPT ![f] = FreeFlow]
            /\ UNCHANGED isTransferring
       [] outcome = "threw" ->
            /\ transferStatus' = Status("Error")
            /\ isTransferring' = FALSE
            /\ flows' = [flows EXCEPT ![f] = FreeFlow]
  /\ UNCHANGED <<pureVars, inputVars, variant, quote, showPreview, availableRoutes,
                 selectedRoute, routeData, sessions>>

\* Bridge.tsx:154-182, route.quote answers
LegacyPreviewQuoteReturns(f, outcome) ==
  /\ flows[f].pc = "lp_quote"
  /\ CASE outcome = "ok" ->
            /\ quote' = WithRouteType(QuoteOf(flows[f].route, TRUE, "preview"),
                                      flows[f].route.kind)
            /\ showPreview' = TRUE
            /\ transferStatus' = Status("Review the transaction details below")
            /\ isTransferring' = FALSE
       [] outcome = "unsuccessful" ->
            /\ transferStatus' = Status("Quote failed")
            /\ UNCHANGED <<quote, showPreview, isTransferring>>
       [] outcome = "threw" ->
            /\ transferStatus' = Status("Error")
            /\ isTransferring' = FALSE
            /\ UNCHANGED <<quote, showPreview>>
  /\ flows' = [flows EXCEPT ![f] = FreeFlow]
  /\ UNCHANGED <<pureVars, inputVars, variant, availableRoutes, selectedRoute, routeData, sessions>>

\* Bridge.tsx:185-212, up to the await of getTransferQuote
LegacyConfirmClick(f) ==
  /\ variant = "legacy"
  /\ ConfirmEnabled
  /\ IsNextFree(f)
  /\ isTransferring' = TRUE
  /\ transferStatus' = Status("Preparing transaction...")
  /\ flows' = [flows EXCEPT ![f] =
       [FreeFlow EXCEPT !.pc = "lc_resolve", !.handler = "confirm",
                        !.sourceChainName = ChainName(sourceChain),
                        !.amount = amount,
                        !.gq = "initWormhole", !.shownQuote = quote]]
  /\ UNCHANGED <<pureVars, inputVars, variant, quote, showPreview, availableRoutes,
                 selectedRoute, routeData, sessions>>

\* Bridge.tsx:205-216: getTransferQuote returned its default route
LegacyConfirmResolved(f, routes) ==
  /\ flows[f].pc = "lc_resolve"
  /\ flows[f].gq = "findRoutes"
  /\ sessions < MaxSessions
  /\ routes \in FoundRouteLists(sessions + 1)
  /\ ~NoRoutesFound(routes)
  /\ sessions' = sessions + 1
  /\ transferStatus' = Status("Waiting for wallet approval...")
  /\ flows' = [flows EXCEPT ![f].pc = "cf_signer",
                            ![f].gq = "-",
                            ![f].allRoutes = routes,
                            ![f].route = ArrayAt(routes, 0, NoRoute),
                            ![f].request = sessions + 1]
  /\ UNCHANGED <<pureVars, inputVars, variant, isTransferring, quote, showPreview,
                 availableRoutes, selectedRoute, routeData>>

\* what resolver.findRoutes can answer to the getTransferQuote call of flow f
FindRoutesAnswers(f) ==
  IF flows[f].gq = "findRoutes" THEN FoundRouteLists(sessions + 1) ELSE {}

\* the steps of the route-selecting Bridge and of the service functions
BridgeSteps ==
  \/ \E f \in FlowIds : PreviewClick(f)
  \/ \E f \in FlowIds : \E routes \in FindRoutesAnswers(f) :
       PreviewRoutesResolved(f, routes)
  \/ \E f \in FlowIds : PreviewResolveThrows(f)
  \/ \E f \in FlowIds, i \in 1..Len(ROUTE_PRIORITY), o \in {"valid", "invalid", "threw"} :
       AggValidateReturns(f, i, o)
  \/ \E f \in FlowIds, i \in 1..Len(ROUTE_PRIORITY), o \in {"ok", "unsuccessful", "threw"} :
       AggQuoteReturns(f, i, o)
  \/ \E f \in FlowIds : PreviewQuotesReturn(f)
  \/ \E i \in 1..Len(ROUTE_PRIORITY) : SelectRoute(i)
  \/ Cancel
  \/ \E f \in FlowIds : ConfirmClick(f)
  \/ \E f \in FlowIds : SignerCreated(f)
  \/ \E f \in FlowIds, o \in {"valid", "invalid", "threw"} : ItValidateReturns(f, o)
  \/ \E f \in FlowIds, o \in {"ok", "unsuccessful", "threw"} : ItQuoteReturns(f, o)
  \/ \E f \in FlowIds : InitiateThrows(f)
  \/ \E f \in FlowIds, n \in 1..MaxTxns : SignAndSendCalled(f, n)
  \/ \E f \in FlowIds, i \in 1..MaxTxns : SendStart(f, i)
  \/ \E f \in FlowIds : SignTransactionCalled(f)
  \/ \E f \in FlowIds, i \in 1..MaxTxns, ok \in BOOLEAN : WalletReturns(f, i, ok)
  \/ \E f \in FlowIds, i \in 1..MaxTxns, o \in {"mined", "reverted", "threw"} :
       ReceiptReturns(f, i, o)
  \/ \E f \in FlowIds : InitiateReturns(f)
  \/ \E f \in FlowIds : ConfirmSucceeds(f)
  \/ \E f \in FlowIds : ConfirmCatch(f)
  \/ \E f \in FlowIds : WormholeInitialized(f)
  \/ \E f \in FlowIds, d \in DestTokenLists, parsed \in 0..2 : DestTokensReturn(f, d, parsed)
  \/ \E f \in FlowIds : RequestCreated(f)
  \/ \E f \in FlowIds : NoRoutesThrows(f)
  \/ \E f \in FlowIds : GetTransferQuoteThrows(f)

\* the steps of the single-route Bridge that differ
LegacySteps ==
  \/ \E f \in FlowIds : \E routes \in FindRoutesAnswers(f) :
       LegacyPreviewResolved(f, routes)
  \/ \E f \in FlowIds, o \in {"valid", "invalid", "threw"} : LegacyPreviewValidateReturns(f, o)
  \/ \E f \in FlowIds, o \in {"ok", "unsuccessful", "threw"} : LegacyPreviewQuoteReturns(f, o)
  \/ \E f \in FlowIds : LegacyConfirmClick(f)
  \/ \E f \in FlowIds : \E routes \in FindRoutesAnswers(f) :
       LegacyConfirmResolved(f, routes)

Next == BridgeSteps \/ LegacySteps

Spec == Init /\ [][Next]_vars

(***************************************************************************)
(* The route-selecting Bridge with its form inputs in use: the amount      *)
(* field, MAX, the two chain selectors and the swap button are rendered    *)
(* and enabled whatever the component is doing.  The chain inputs and the  *)
(* amount input are exercised in a specification each.                     *)
(***************************************************************************)
\* Navbar.tsx:490-494, onChange of the amount field
SetAmount(text) ==
  /\ text \in AmountTexts
  /\ amount' = text
  /\ UNCHANGED <<pureVars, variant, uiVars, sessions, flows, sourceChain, destChain>>

\* Navbar.tsx:249-254 and 500-503, MAX with a balance other than 0
SetMax ==
  /\ amount' = BalanceText
  /\ UNCHANGED <<pureVars, variant, uiVars, sessions, flows, sourceChain, destChain>>

\* Navbar.tsx:243-247
SwapChains ==
  /\ sourceChain' = destChain
  /\ destChain' = sourceChain
  /\ UNCHANGED <<pureVars, variant, uiVars, sessions, flows, amount>>

\* Navbar.tsx:432-441, the source chain selector
SelectSourceChain(chainId) ==
  /\ chainId \in ChainChoices
  /\ sourceChain' = chainId
  /\ UNCHANGED <<pureVars, variant, uiVars, sessions, flows, destChain, amount>>

\* Navbar.tsx:468-471, the destination chain selector
SelectDestChain(chainId) ==
  /\ chainId \in ChainChoices
  /\ destChain' = chainId
  /\ UNCHANGED <<pureVars, variant, uiVars, sessions, flows, sourceChain, amount>>

\* SpecChains: the amount is typed and left alone, the chains are changed
InitChains ==
  /\ variant = "routes"
  /\ InitBridge
  /\ FormFilled
  /\ FmtIdle
  /\ HelperIdle

NextChains ==
  \/ BridgeSteps
  \/ SwapChains
  \/ \E chainId \in ChainChoices : SelectSourceChain(chainId)
  \/ \E chainId \in ChainChoices : SelectDestChain(chainId)

SpecChains == InitChains /\ [][NextChains]_vars

\* SpecAmount: the component as constructed (Navbar.tsx:184-194); the
\* chains are left alone, the amount is typed and changed
InitAmount ==
  /\ variant = "routes"
  /\ InitBridge
  /\ sourceChain = 8453
  /\ destChain = 1
  /\ amount = ""
  /\ FmtIdle
  /\ HelperIdle

NextAmount ==
  \/ BridgeSteps
  \/ \E text \in AmountTexts : SetAmount(text)
  \/ SetMax

SpecAmount == InitAmount /\ [][NextAmount]_vars

(***************************************************************************)
(* formatRoutes called on its own, with route and quote lists of any       *)
(* content: the lists need not come from one resolver session, the kinds   *)
(* may repeat or be unknown, and the quote list may be one short.          *)
(***************************************************************************)
\* core/types.ts:64-69 (RouteType) and 668-705 of route-helpers.ts (ROUTE_METADATA)
ROUTE_METADATA ==
  [t \in RouteKinds |->
     CASE t = "AutomaticCCTPRoute" ->
            [name |-> "Fast CCTP (Automatic)", requiresManualClaim |-> FALSE, isAutomatic |-> TRUE]
       [] t = "CCTPRoute" ->
            [name |-> "Fast CCTP (Manual)", requiresManualClaim |-> TRUE, isAutomatic |-> FALSE]
       [] t = "AutomaticTokenBridgeRoute" ->
            [name |-> "Token Bridge (Automatic)", requiresManualClaim |-> FALSE, isAutomatic |-> TRUE]
       [] t = "TokenBridgeRoute" ->
            [name |-> "Token Bridge (Manual)", requiresManualClaim |-> TRUE, isAutomatic |-> FALSE]]

\* the route kinds handed to formatRoutes: the registered ones and one that
\* the lookup tables do not know
FmtKinds == RouteKinds \cup {"MayanSwapRoute"}

\* the quotes handed to formatRoutes: a failed slot, quotes without a relay
\* fee, and quotes with one (6 and 8 token decimals, zero amount, no symbol)
FmtQuoteValues ==
  { [success |-> FALSE, relayFee |-> NoRelayFee, eta |-> 0],
    [success |-> TRUE, relayFee |-> NoRelayFee, eta |-> 1036800000],
    [success |-> TRUE, relayFee |-> NoRelayFee, eta |-> 86400000],
    [success |-> TRUE, eta |-> 900000,
     relayFee |-> [amount |-> 250000, decimals |-> 6, symbol |-> "USDC"]],
    [success |-> TRUE, eta |-> 7200000,
     relayFee |-> [amount |-> 149, decimals |-> 8, symbol |-> "WBTC"]],
    [success |-> TRUE, eta |-> 45000,
     relayFee |-> [amount |-> 0, decimals |-> 6, symbol |-> "USDC"]],
    [success |-> TRUE, eta |-> 3600000,
     relayFee |-> [amount |-> 260, decimals |-> 8, symbol |-> ""]] }

\* the lists of up to n elements of S
ListsUpTo(S, n) == UNION {[1..k -> S] : k \in 0..n}

InitFormat ==
  /\ variant = "routes"
  /\ InitBridge
  /\ FormFilled
  /\ HelperIdle
  /\ fmtPc = "called"
  /\ fmtRoutes \in ListsUpTo({[kind |-> k, session |-> 0] : k \in FmtKinds}, MaxRoutes)
  /\ fmtQuotes \in ListsUpTo(FmtQuoteValues, MaxRoutes)
  /\ Len(fmtQuotes) \in {Len(fmtRoutes) - 1, Len(fmtRoutes)}
  /\ fmtOptions = <<>>

\* route-helpers.ts:6-34
FormatRoutesCall ==
  /\ fmtPc = "called"
  /\ fmtOptions' = formatRoutes(fmtRoutes, fmtQuotes)
  /\ fmtPc' = "returned"
  /\ UNCHANGED <<fmtRoutes, fmtQuotes, helperVars, inputVars, variant, uiVars,
                 sessions, flows>>

NextFormat == FormatRoutesCall

SpecFormat == InitFormat /\ [][NextFormat]_vars

(***************************************************************************)
(* The other helpers called on their own: the two sort helpers on option   *)
(* lists built by formatRoutes, the two ETA formatters, parseTimeString on *)
(* formatETA's output, and the status type guards.                         *)
(***************************************************************************)
\* the quotes behind the options handed to the sort helpers: relay fees of
\* 0, 2 and 5 tokens (2 tokens both with 6 and with 8 decimals) or none, and
\* ETAs of every unit formatETA prints
SortQuoteValues ==
  { [success |-> FALSE, relayFee |-> NoRelayFee, eta |-> 0],
    [success |-> TRUE, relayFee |-> NoRelayFee, eta |-> 1036800000],
    [success |-> TRUE, relayFee |-> NoRelayFee, eta |-> 86400000],
    [success |-> TRUE, eta |-> 900000,
     relayFee |-> [amount |-> 5000000, decimals |-> 6, symbol |-> "USDC"]],
    [success |-> TRUE, eta |-> 7200000,
     relayFee |-> [amount |-> 2000000, decimals |-> 6, symbol |-> "USDC"]],
    [success |-> TRUE, eta |-> 3600000,
     relayFee |-> [amount |-> 200000000, decimals |-> 8, symbol |-> "WBTC"]],
    [success |-> TRUE, eta |-> 45000,
     relayFee |-> [amount |-> 0, decimals |-> 6, symbol |-> "USDC"]] }

\* n routes of pairwise different kinds
DistinctRoutes(n) ==
  [i \in 1..n |-> [kind |-> IF i <= Len(ROUTE_PRIORITY) THEN ROUTE_PRIORITY[i]
                                                      ELSE "MayanSwapRoute",
                   session |-> 0]]

\* the option lists formatRoutes builds for them
SortInputs ==
  { formatRoutes(DistinctRoutes(Len(quotes)), quotes) :
      quotes \in ListsUpTo(SortQuoteValues, MaxOptions) }

\* the milliseconds in one second, minute, hour and day
UnitMillis == {1000, 60000, 3600000, 86400000}

\* ETAs in milliseconds: whole counts of each unit, one millisecond less,
\* and half a unit more
EtaSamples ==
  { e \in { k * u + o : k \in 0..MaxCount, u \in UnitMillis, o \in {-1, 0, 500, 30000} } :
      e >= 0 }

InitHelpers ==
  /\ variant = "routes"
  /\ InitBridge
  /\ FormFilled
  /\ FmtIdle
  /\ callPc = "called"
  /\ callResult = <<>>
  /\ \/ callFn \in {"sortRoutesByFee", "sortRoutesBySpeed"} /\ callArg \in SortInputs
     \/ callFn \in {"formatETA", "previewETA"} /\ callArg \in EtaSamples
     \/ callFn = "parseTimeString" /\ callArg \in EtaSamples \X EtaSamples
     \/ callFn = "transferGuards" /\ callArg \in TransferStatus

\* what every helper call leaves alone; the argument is the caller's own
\* array or value, which no helper writes to
HelperReturns ==
  /\ callPc' = "returned"
  /\ UNCHANGED <<callFn, callArg, fmtVars, inputVars, variant, uiVars, sessions, flows>>

\* route-helpers.ts:89-91
SortRoutesByFeeCall ==
  /\ callPc = "called" /\ callFn = "sortRoutesByFee"
  /\ callResult' = sortRoutesByFee(callArg)
  /\ HelperReturns

\* route-helpers.ts:93-100
SortRoutesBySpeedCall ==
  /\ callPc = "called" /\ callFn = "sortRoutesBySpeed"
  /\ callResult' = sortRoutesBySpeed(callArg)
  /\ HelperReturns

\* route-helpers.ts:74-84
FormatETACall ==
  /\ callPc = "called" /\ callFn = "formatETA"
  /\ callResult' = formatETA(callArg)
  /\ HelperReturns

\* Navbar.tsx:584-595
PreviewETACall ==
  /\ callPc = "called" /\ callFn = "previewETA"
  /\ callResult' = previewETA(callArg)
  /\ HelperReturns

\* route-helpers.ts:96-97 on strings built at route-helpers.ts:23: the
\* formatted ETAs of two quotes are parsed back
ParseTimeStringCall ==
  /\ callPc = "called" /\ callFn = "parseTimeString"
  /\ callResult' = <<parseTimeString(formatETA(callArg[1])),
                     parseTimeString(formatETA(callArg[2]))>>
  /\ HelperReturns

\* core/types.ts:370-387, the three guards asked about one status
TransferGuardsCall ==
  /\ callPc = "called" /\ callFn = "transferGuards"
  /\ callResult' = [isTransferComplete |-> isTransferComplete(callArg),
                     isTransferPending  |-> isTransferPending(callArg),
                     isTransferFailed   |-> isTransferFailed(callArg)]
  /\ HelperReturns

NextHelpers ==
  \/ SortRoutesByFeeCall
  \/ SortRoutesBySpeedCall
  \/ FormatETACall
  \/ PreviewETACall
  \/ ParseTimeStringCall
  \/ TransferGuardsCall

SpecHelpers == InitHelpers /\ [][NextHelpers]_vars

(***************************************************************************)
(* Properties.                                                             *)
(***************************************************************************)
Range(seq) == {seq[i] : i \in DOMAIN seq}

InFlight(fl) == {i \in DOMAIN fl.sends : fl.sends[i] \in {"wallet", "receipt"}}

\* C1: in initiateTransfer, route.initiate is invoked only after validate
\* returned valid and quote returned a successful quote in the same call;
\* when validate or quote throws or answers negatively the call aborts
\* with an error, and no later step and no wallet send is executed.
C1_InitiateOnlyAfterValidateAndQuote ==
  \A f \in FlowIds :
    LET fl == flows[f]
    IN /\ "initiate" \in Range(fl.calls) =>
            /\ fl.calls = <<"validate", "quote", "initiate">>
            /\ fl.validated = "valid"
            /\ fl.itQuote.success
            /\ fl.itQuote.issuedBy = "initiateTransfer"
       /\ fl.startOrder # <<>> => "initiate" \in Range(fl.calls)
       /\ fl.validated \in {"invalid", "threw"} =>
            /\ fl.pc = "cf_catch" /\ fl.failedAt = "validate" /\ fl.thrown # NoError
            /\ fl.calls = <<"validate">>
            /\ fl.startOrder = <<>>
       /\ (fl.pc = "cf_catch" /\ fl.failedAt = "quote") =>
            /\ fl.thrown # NoError
            /\ fl.calls = <<"validate", "quote">>
            /\ fl.startOrder = <<>>
       /\ (fl.itQuote # NullQuote /\ ~fl.itQuote.success) =>
            fl.pc = "cf_catch" /\ fl.failedAt = "quote"

\* a transfer got as far as a wallet send
C1_Witness ==
  \E f \in FlowIds : flows[f].pc = "sa_loop" /\ flows[f].startOrder # <<>>

\* C2: within one signAndSend call the wallet sends are started in list
\* order and one at a time: send i+1 starts only after send i returned its
\* hash after the receipt wait.
C2_SendsInOrderOneAtATime ==
  \A f \in FlowIds :
    LET fl == flows[f]
    IN /\ Cardinality(InFlight(fl)) <= 1
       /\ fl.startOrder = [k \in 1..Len(fl.startOrder) |-> k]
       /\ \A i \in DOMAIN fl.sends :
            fl.sends[i] # "new" =>
              \A j \in 1..(i - 1) :
                /\ fl.sends[j] \in {"mined", "reverted"}
                /\ j <= Len(fl.txids)
                /\ fl.txids[j] = Hash(j)

\* the second send of a call is in flight
C2_Witness ==
  \E f \in FlowIds : Len(flows[f].txns) = 2 /\ flows[f].sends[2] = "wallet"

\* C3: when the send of transaction i is rejected or fails, signAndSend
\* fails and no send is started for any later transaction.
C3_FailureAbortsSequence ==
  \A f \in FlowIds :
    LET fl == flows[f]
    IN fl.failedTx # 0 =>
         /\ fl.pc = "cf_catch"
         /\ fl.thrown # NoError
         /\ \A j \in DOMAIN fl.sends : j > fl.failedTx => fl.sends[j] = "new"
         /\ fl.startOrder = [k \in 1..fl.failedTx |-> k]

\* the first of two transactions was rejected
C3_Witness ==
  \E f \in FlowIds : Len(flows[f].txns) = 2 /\ flows[f].failedTx = 1

\* C4: the quote route.initiate receives is the one route.quote produced
\* in the same initiateTransfer call, never the quote shown in the preview.
C4_InitiateGetsFreshQuote ==
  \A f \in FlowIds :
    LET fl == flows[f]
    IN "initiate" \in Range(fl.calls) =>
         /\ "quote" \in Range(fl.calls)
         /\ fl.initiateQuote = fl.itQuote
         /\ fl.initiateQuote.issuedBy = "initiateTransfer"
         /\ fl.initiateQuote \notin Range(routeData.allQuotes)
         /\ fl.initiateQuote.issuedBy # fl.shownQuote.issuedBy

\* initiate was called for the very route whose quote the preview shows
C4_Witness ==
  \E f \in FlowIds :
    /\ "initiate" \in Range(flows[f].calls)
    /\ flows[f].shownQuote.success
    /\ flows[f].shownQuote.kind = flows[f].route.kind

C6_FireAllThenAwaitAll ==
  /\ \A f \in FlowIds :
       flows[f].pc = "pv_quotes" =>
         /\ Len(flows[f].tasks) = Len(flows[f].allRoutes)
         /\ \A i \in DOMAIN flows[f].tasks :
              LET task == flows[f].tasks[i]
              IN /\ task.calls \in {<<"validate">>, <<"validate", "quote">>}
                 /\ task.pc = "validate" => task.calls = <<"validate">>
                 /\ task.pc = "quote" => task.calls = <<"validate", "quote">>
                 /\ task.pc = "settled" <=> task.result # NullQuote
  /\ \A i \in DOMAIN routeData.allQuotes : routeData.allQuotes[i] # NullQuote

\* a later route has settled while the first is still in its validate call
C6_Witness ==
  \E f \in FlowIds :
    /\ flows[f].pc = "pv_quotes"
    /\ Len(flows[f].tasks) = 2
    /\ flows[f].tasks[1].pc = "validate"
    /\ flows[f].tasks[2].pc = "settled"

\* C7: on confirm, the route handed to initiateTransfer is the route of the
\* current session whose kind is the selected option's type, together with
\* that session's transfer request.
C7_TransferUsesSelectedRoute ==
  [][\A f \in FlowIds :
       (variant = "routes" /\ flows[f].pc = "free" /\ flows'[f].pc = "cf_signer") =>
         /\ flows'[f].route.kind = selectedRoute.type
         /\ flows'[f].route \in Range(routeData.allRoutes)
         /\ flows'[f].route.session = sessions
         /\ flows'[f].request = sessions
         /\ flows'[f].request = routeData.transferRequest]_vars

\* initiateTransfer runs with a route other than the default one
C7_Witness ==
  \E f \in FlowIds :
    /\ variant = "routes"
    /\ flows[f].pc = "it_validate"
    /\ flows[f].route # routeData.allRoutes[1]
    /\ flows[f].route.kind = selectedRoute.type

\* C8: at most one confirm flow (handleConfirmTransfer, initiateTransfer,
\* signAndSend) is in flight at any time.
C8_OneConfirmInFlight ==
  /\ Cardinality({f \in FlowIds : flows[f].handler = "confirm"}) <= 1
  /\ Cardinality({f \in FlowIds : flows[f].pc = "sa_loop"}) <= 1

\* a signAndSend is running while the preview panel with its Confirm button is shown
C8_Witness ==
  \E f \in FlowIds :
    /\ flows[f].pc = "sa_loop"
    /\ InFlight(flows[f]) # {}
    /\ showPreview /\ quote # NullQuote /\ isTransferring

\* the identifier the specification asks for: the last origin transaction,
\* else the single txid/hash field
LastOriginTxOrField(receipt) ==
  IF receipt.hasOriginTxs /\ Len(receipt.originTxs) > 0
    THEN receipt.originTxs[Len(receipt.originTxs)]
  ELSE IF receipt.txid # 0 THEN receipt.txid
  ELSE receipt.hash

\* C9: the identifier extracted from a receipt is the txid of the last
\* entry of originTxs when that list is non-empty, else the txid/hash
\* field, at every place where it is extracted.
C9_LastOriginTxIsExtracted ==
  \A f \in FlowIds :
    flows[f].pc = "cf_receipt" =>
      flows[f].loggedTxHash = LastOriginTxOrField(flows[f].receipt)

\* C10: the error surfaced by a failed signAndSend tells which transaction
\* failed, its description, and the hashes already submitted.
C10_FailureCarriesContext ==
  \A f \in FlowIds :
    LET fl == flows[f]
    IN fl.failedTx # 0 =>
         /\ {"txIndex", "description", "completed"} \subseteq DOMAIN fl.thrown
         /\ fl.thrown.txIndex = fl.failedTx
         /\ fl.thrown.description = fl.txns[fl.failedTx]
         /\ fl.thrown.completed = fl.txids

\* getTransferQuote failed at its destination-token check before it went on
FailedBeforeRequest(fl) ==
  /\ fl.rcalls = <<"supportedDestinationTokens">>
  /\ fl.request = 0
  /\ fl.allRoutes = <<>>
  /\ fl.tasks = <<>>
  /\ fl.calls = <<>>

\* C11: when supportedDestinationTokens yields no destination token,
\* getTransferQuote fails with NoDestinationTokenError, before a transfer
\* request is created, before findRoutes is called and before any validate
\* or quote is attempted.
C11_NoDestinationTokenError ==
  \A f \in FlowIds :
    flows[f].failedAt = "destTokens" =>
      /\ flows[f].thrown.name = "NoDestinationTokenError"
      /\ FailedBeforeRequest(flows[f])

\* getTransferQuote has returned to the handler of this flow
Returned(fl) ==
  /\ fl.gq = "-"
  /\ fl.rcalls # <<>>
  /\ fl.rcalls[Len(fl.rcalls)] = "findRoutes"
  /\ fl.failedAt \notin {"findRoutes", "noRoutes"}

\* the position of a route kind in the registration order
PriorityRank(kind) ==
  CASE kind = "AutomaticCCTPRoute"        -> 1
    [] kind = "CCTPRoute"                 -> 2
    [] kind = "AutomaticTokenBridgeRoute" -> 3
    [] kind = "TokenBridgeRoute"          -> 4
    [] OTHER                              -> 0

\* C12: whenever getTransferQuote returns, its route list is non-empty and
\* in registration priority order without repetition, and the default route
\* is its first element; an empty result is reported as an error instead.
C12_RoutesNonEmptyInPriorityOrder ==
  \A f \in FlowIds :
    LET fl == flows[f]
    IN /\ Returned(fl) =>
            /\ Len(fl.allRoutes) >= 1
            /\ \A i \in DOMAIN fl.allRoutes : PriorityRank(fl.allRoutes[i].kind) >= 1
            /\ \A i, j \in DOMAIN fl.allRoutes :
                 i < j => PriorityRank(fl.allRoutes[i].kind) < PriorityRank(fl.allRoutes[j].kind)
            /\ fl.route = fl.allRoutes[1]
       /\ fl.failedAt = "noRoutes" =>
            /\ fl.pc \in {"pv_catch", "cf_catch"}
            /\ fl.thrown = JsError("No routes found for this transfer")
            /\ fl.allRoutes = <<>>

\* getTransferQuote returned two routes that are not adjacent in the order
C12_Witness ==
  \E f \in FlowIds :
    /\ Returned(flows[f])
    /\ Len(flows[f].allRoutes) = 2
    /\ flows[f].allRoutes[1].kind = "CCTPRoute"
    /\ flows[f].allRoutes[2].kind = "TokenBridgeRoute"

\* the aggregation of flow f resolves in this step
AggregationResolves(f) == flows[f].pc = "pv_quotes" /\ flows'[f].pc = "free"

\* C13: route-level quote failures only shrink the set of selectable
\* options: when at least one route of the session was quoted successfully
\* the preview is shown with the successful routes selectable and no error
\* status is set, even when the failing route is the first one.
C13_PartialFailureStillPreviews ==
  [][\A f \in FlowIds :
       (/\ AggregationResolves(f)
        /\ \E i \in DOMAIN routeData'.allQuotes : routeData'.allQuotes[i].success) =>
         /\ showPreview'
         /\ quote' # NullQuote /\ quote'.success
         /\ transferStatus'.msg # "Failed to get quote"
         /\ \A i \in DOMAIN routeData'.allQuotes :
              routeData'.allQuotes[i].success =>
                \E j \in DOMAIN availableRoutes' :
                  availableRoutes'[j].type = routeData'.allRoutes[i].kind]_vars

\* the aggregation did not call quote for task i and left the other slots alone
InvalidRouteIsolated(f, i) ==
  /\ flows[f].tasks[i].calls = <<"validate">>
  /\ ~routeData'.allQuotes[i].success
  /\ \A j \in DOMAIN flows[f].tasks :
       j # i => routeData'.allQuotes[j] = flows[f].tasks[j].result

\* C14: if validate returns an explicit invalid result for a route during
\* aggregation, quote is not invoked for that route, the route is excluded
\* from the selectable set, and the aggregation of the other routes is
\* unaffected.
C14_InvalidRouteExcluded ==
  [][\A f \in FlowIds :
       AggregationResolves(f) =>
         \A i \in DOMAIN flows[f].tasks :
           flows[f].tasks[i].validated = "invalid" =>
             /\ InvalidRouteIsolated(f, i)
             /\ \A j \in DOMAIN availableRoutes' :
                  availableRoutes'[j].type # flows[f].allRoutes[i].kind]_vars

\* the isolation of an invalid route alone, without its exclusion from the
\* options (holds)
C14_InvalidRouteIsolated ==
  [][\A f \in FlowIds :
       AggregationResolves(f) =>
         \A i \in DOMAIN flows[f].tasks :
           flows[f].tasks[i].validated = "invalid" => InvalidRouteIsolated(f, i)]_vars

\* a validate or quote call has been made in this flow
RouteCallsMade(fl) ==
  fl.tasks # <<>> \/ fl.calls # <<>> \/ fl.pc \in {"lp_validate", "lp_quote"}

\* the addresses were parsed once, at request creation, before any route call;
\* a confirm flow parses nothing and hands on the request of the previewed quote
ParsedOnceAtCreation(fl) ==
  /\ Returned(fl) =>
       fl.rcalls = <<"supportedDestinationTokens", "parseAddress", "parseAddress",
                     "RouteTransferRequest.create", "findRoutes">>
  /\ RouteCallsMade(fl) => fl.request >= 1
  /\ fl.handler = "confirm" =>
       /\ "parseAddress" \notin Range(fl.rcalls)
       /\ fl.calls # <<>> => fl.request = fl.shownQuote.session

\* C15: within one quoting-and-transfer session the sender and receiver
\* addresses are parsed exactly once, at transfer-request creation inside
\* getTransferQuote and before any route's validate or quote; the confirm
\* step reuses the already-parsed request rather than resolving and parsing
\* again.
C15_AddressesParsedOnce ==
  \A f \in FlowIds : ParsedOnceAtCreation(flows[f])

\* the same for the route-selecting component alone (holds)
ParsedOnceInRouteSelectingBridge ==
  variant = "routes" => \A f \in FlowIds : ParsedOnceAtCreation(flows[f])

\* the calls of the adapter's method m made in this flow
CallsOf(fl, m) == SelectSeq(fl.adapterCalls, LAMBDA c : c.method = m)

\* C16: signAndSend invokes only the adapter's sendTransaction, never
\* signTransaction; a call of the adapter's signTransaction fails with an
\* error and neither sends nor signs anything.
C16_NeverDetachedSignature ==
  \A f \in FlowIds :
    LET fl == flows[f]
    IN /\ \A k \in DOMAIN fl.adapterCalls :
            fl.adapterCalls[k].caller = "signAndSend" =>
              fl.adapterCalls[k].method = "sendTransaction"
       /\ Len(CallsOf(fl, "sendTransaction")) = Len(fl.startOrder)
       /\ CallsOf(fl, "signTransaction") # <<>> =>
            /\ fl.adapterCalls[Len(fl.adapterCalls)].method = "signTransaction"
            /\ Len(CallsOf(fl, "signTransaction")) = 1
            /\ fl.pc = "cf_catch"
            /\ fl.thrown = SignTransactionError
            /\ InFlight(fl) = {}
            /\ Len(fl.txids) = Len(fl.startOrder)

\* signAndSend sent two transactions, then signTransaction was called and threw
C16_Witness ==
  \E f \in FlowIds :
    /\ Len(CallsOf(flows[f], "sendTransaction")) = 2
    /\ CallsOf(flows[f], "signTransaction") # <<>>
    /\ flows[f].pc = "cf_catch"

\* C17: in initiateTransfer a failed re-validation surfaces as
\* TransferFailedError and a failed re-quote as QuoteFailedError; the error
\* kind lets the caller tell which step failed.
C17_TypedStepErrors ==
  \A f \in FlowIds :
    LET fl == flows[f]
    IN /\ (fl.failedAt = "validate" /\ fl.validated = "invalid") =>
            fl.thrown.name = "TransferFailedError"
       /\ (fl.failedAt = "quote" /\ fl.itQuote # NullQuote /\ ~fl.itQuote.success) =>
            fl.thrown.name = "QuoteFailedError"

\* the quote formatRoutes is to use for option i, when there is one
HasQuote(i) == i \in DOMAIN fmtQuotes

\* the rendering of the sampled ETAs
ExpectedTime(eta) ==
  CASE eta = 0          -> [n |-> 0, unit |-> "sec"]
    [] eta = 45000      -> [n |-> 45, unit |-> "sec"]
    [] eta = 900000     -> [n |-> 15, unit |-> "min"]
    [] eta = 3600000    -> [n |-> 1, unit |-> "hour"]
    [] eta = 7200000    -> [n |-> 2, unit |-> "hours"]
    [] eta = 86400000   -> [n |-> 1, unit |-> "day"]
    [] eta = 1036800000 -> [n |-> 12, unit |-> "days"]

\* fixed6 millionths are within half a millionth of amount / 10^decimals
\* (decimals >= 6)
NearestMillionth(fixed6, relayFee) ==
  LET unit == Pow10(relayFee.decimals - 6)
      diff == fixed6 * unit - relayFee.amount
  IN 2 * diff <= unit /\ -2 * diff <= unit

\* C18: formatRoutes zips each route with its quote index-for-index: as many
\* options as routes, in the same order, option i taking its type, name,
\* description and automatic flag from route i and its fee and ETA from
\* quotes[i].
C18_ZipsRouteWithQuote ==
  fmtPc = "returned" =>
    /\ Len(fmtOptions) = Len(fmtRoutes)
    /\ \A i \in DOMAIN fmtRoutes :
         LET o == fmtOptions[i]
         IN /\ o.type = fmtRoutes[i].kind
            /\ \A j \in DOMAIN fmtRoutes :
                 fmtRoutes[j].kind = fmtRoutes[i].kind =>
                   /\ fmtOptions[j].name = o.name
                   /\ fmtOptions[j].description = o.description
                   /\ fmtOptions[j].isAutomatic = o.isAutomatic
            /\ o.type \in RouteKinds => o.name = ROUTE_METADATA[o.type].name
            /\ o.type \notin RouteKinds => o.name = o.type
            /\ HasQuote(i) =>
                 /\ o.estimatedTime = ExpectedTime(fmtQuotes[i].eta)
                 /\ o.fee.free <=> fmtQuotes[i].relayFee = NoRelayFee
                 /\ ~o.fee.free => NearestMillionth(o.fee.fixed6, fmtQuotes[i].relayFee)
            /\ ~HasQuote(i) =>
                 o.fee.free /\ o.estimatedTime = ExpectedTime(0)

\* two routes of which the second one has the relay fee and the longer ETA
C18_Witness ==
  /\ fmtPc = "returned"
  /\ Len(fmtOptions) = 2 /\ Len(fmtQuotes) = 2
  /\ fmtOptions[1].fee.free /\ ~fmtOptions[2].fee.free
  /\ fmtOptions[1].estimatedTime # fmtOptions[2].estimatedTime
  /\ fmtOptions[1].type # fmtOptions[2].type

C20_AutomaticIffRelayed ==
  fmtPc = "returned" =>
    \A i \in DOMAIN fmtOptions :
      LET o == fmtOptions[i]
      IN o.type \in RouteKinds =>
           /\ o.isAutomatic <=> o.type \in {"AutomaticCCTPRoute", "AutomaticTokenBridgeRoute"}
           /\ o.isAutomatic = ROUTE_METADATA[o.type].isAutomatic

\* a relayed and a manual route of the same protocol side by side
C20_Witness ==
  /\ fmtPc = "returned"
  /\ Len(fmtOptions) = 2
  /\ fmtOptions[1].type = "AutomaticCCTPRoute" /\ fmtOptions[1].isAutomatic
  /\ fmtOptions[2].type = "CCTPRoute" /\ ~fmtOptions[2].isAutomatic

\* a helper call of SpecHelpers has returned
HelperReturned(fn) == callPc = "returned" /\ callFn = fn

\* the position an option of the sorted list had in the list handed in (the
\* options of one list differ in their type)
OriginalIndex(option) == CHOOSE i \in DOMAIN callArg : callArg[i] = option

\* the sorted list holds every option handed in exactly once
IsPermutationOfArg(sorted) ==
  /\ Len(sorted) = Len(callArg)
  /\ \A i \in DOMAIN callArg :
       Cardinality({p \in DOMAIN sorted : sorted[p] = callArg[i]}) = 1

\* the caller's list is as formatRoutes built it, in route order
ArgInRouteOrder ==
  \A i \in DOMAIN callArg : callArg[i].type = DistinctRoutes(Len(callArg))[i].kind

\* whole tokens as a fee magnitude
Tokens(n) == n * Pow10(FeeDigits)

\* C21: sortRoutesByFee returns the options handed in, each exactly once, in
\* ascending order of feeAmount, options of equal feeAmount in the order they
\* were handed in, and the list handed in is left as it was; fees 0, 5, 2
\* come back as the first, the third and the second option.
C21_ByFeeAscendingStable ==
  HelperReturned("sortRoutesByFee") =>
    /\ IsPermutationOfArg(callResult)
    /\ ArgInRouteOrder
    /\ \A p, q \in DOMAIN callResult :
         p < q =>
           /\ callResult[p].feeAmount <= callResult[q].feeAmount
           /\ callResult[p].feeAmount = callResult[q].feeAmount =>
                OriginalIndex(callResult[p]) < OriginalIndex(callResult[q])
    /\ [i \in DOMAIN callArg |-> callArg[i].feeAmount] = <<0, Tokens(5), Tokens(2)>> =>
         callResult = <<callArg[1], callArg[3], callArg[2]>>

\* fees 0, 5, 2 were sorted into the order first, third, second
C21_Witness ==
  /\ HelperReturned("sortRoutesByFee")
  /\ [i \in DOMAIN callArg |-> callArg[i].feeAmount] = <<0, Tokens(5), Tokens(2)>>
  /\ [p \in DOMAIN callResult |-> OriginalIndex(callResult[p])] = <<1, 3, 2>>

\* the seconds a formatted time of formatETA stands for
SecondsOf(time) ==
  time.n * [sec |-> 1, min |-> 60, hour |-> 3600, hours |-> 3600,
            day |-> 86400, days |-> 86400][time.unit]

\* C22: sortRoutesBySpeed returns the options handed in, each exactly once,
\* in ascending order of the seconds their formatted ETA stands for (so the
\* option with the smallest comes first), options of equal time in the order
\* they were handed in, whatever unit formatETA printed.
C22_BySpeedAscendingStable ==
  HelperReturned("sortRoutesBySpeed") =>
    /\ IsPermutationOfArg(callResult)
    /\ ArgInRouteOrder
    /\ \A i \in DOMAIN callArg :
         callArg[i].estimatedTime.unit \in {"sec", "min", "hour", "hours", "day", "days"}
    /\ \A p \in DOMAIN callResult :
         SecondsOf(callResult[1].estimatedTime) <= SecondsOf(callResult[p].estimatedTime)
    /\ \A p, q \in DOMAIN callResult :
         p < q =>
           /\ SecondsOf(callResult[p].estimatedTime) <= SecondsOf(callResult[q].estimatedTime)
           /\ SecondsOf(callResult[p].estimatedTime) = SecondsOf(callResult[q].estimatedTime) =>
                OriginalIndex(callResult[p]) < OriginalIndex(callResult[q])

\* ~2 hours, ~45 sec, ~15 min were sorted into the order second, third, first
C22_Witness ==
  /\ HelperReturned("sortRoutesBySpeed")
  /\ [i \in DOMAIN callArg |-> callArg[i].estimatedTime] =
       << [n |-> 2, unit |-> "hours"], [n |-> 45, unit |-> "sec"], [n |-> 15, unit |-> "min"] >>
  /\ [p \in DOMAIN callResult |-> OriginalIndex(callResult[p])] = <<2, 3, 1>>

\* the unit a unit word names
UnitNamed(word) ==
  CASE word \in {"day", "days"}                -> "day"
    [] word \in {"hour", "hours"}              -> "hour"
    [] word \in {"min", "minute", "minutes"}   -> "minute"
    [] word \in {"sec", "second", "seconds"}   -> "second"

\* the largest unit that fits into an ETA at least once (the second when
\* none does) and how often it fits
LargestWholeUnit(ms) ==
  IF ms >= 86400000 THEN [n |-> ms \div 86400000, unit |-> "day"]
  ELSE IF ms >= 3600000 THEN [n |-> ms \div 3600000, unit |-> "hour"]
  ELSE IF ms >= 60000 THEN [n |-> ms \div 60000, unit |-> "minute"]
  ELSE [n |-> ms \div 1000, unit |-> "second"]

\* C23: both ETA formatters (formatETA and the preview panel's) print one
\* unit only, the largest of day, hour, minute, second that fits into the ETA
\* at least once (the second when none does), with the whole number of times
\* it fits: 90000 ms and 60000 ms are both printed as 1 minute.
C23_LargestWholeUnitShown ==
  HelperReturned("formatETA") \/ HelperReturned("previewETA") =>
    /\ [n |-> callResult.n, unit |-> UnitNamed(callResult.unit)] = LargestWholeUnit(callArg)
    /\ callArg \in {60000, 90000} =>
         callResult.n = 1 /\ callResult.unit \in {"min", "minute"}

\* formatETA printed 90 seconds as ~1 min
C23_Witness ==
  /\ HelperReturned("formatETA")
  /\ callArg = 90000
  /\ callResult = [n |-> 1, unit |-> "min"]

\* the unit word agrees in number with the count
PluralizedAtOne(time) ==
  /\ time.n = 1 => time.unit \in {"day", "hour", "minute", "second"}
  /\ time.n >= 2 => time.unit \in {"days", "hours", "minutes", "seconds"}

\* C24: formatETA prints the singular unit word with a count of 1 (1 day,
\* 1 hour, 1 minute, 1 second) and the plural word with a count of 2 or more
\* (2 days, 2 hours, 2 minutes, 2 seconds).
C24_PluralizedAtOne ==
  HelperReturned("formatETA") => PluralizedAtOne(callResult)

\* the preview panel's formatter does agree in number for every unit
PreviewPanelPluralizedAtOne ==
  HelperReturned("previewETA") => PluralizedAtOne(callResult)

\* C29: for two ETAs a <= b, the seconds parsed back from formatETA(a) are at
\* most those parsed back from formatETA(b), and the seconds parsed back never
\* exceed the ETA itself; so a strictly smaller parsed time, which is what
\* sortRoutesBySpeed ranks by, implies a strictly smaller ETA.
C29_ParsedTimeMonotone ==
  HelperReturned("parseTimeString") =>
    LET a == callArg[1]
        b == callArg[2]
    IN /\ a <= b => callResult[1] <= callResult[2]
       /\ callResult[1] * 1000 <= a
       /\ callResult[2] * 1000 <= b
       /\ callResult[1] < callResult[2] => a < b

\* one millisecond below an hour parses back as 59 minutes, the hour as 3600 s
C29_Witness ==
  /\ HelperReturned("parseTimeString")
  /\ callArg = <<3599999, 3600000>>
  /\ callResult = <<3540, 3600>>

\* C30: every TransferStatus value satisfies exactly one of isTransferPending,
\* isTransferComplete and isTransferFailed.
C30_GuardsPartitionStatuses ==
  HelperReturned("transferGuards") =>
    Cardinality({g \in DOMAIN callResult : callResult[g]}) = 1

\* the guards are pairwise exclusive
GuardsExclusive ==
  HelperReturned("transferGuards") =>
    Cardinality({g \in DOMAIN callResult : callResult[g]}) <= 1

\* the invocation in slot f returns (or ends in its catch block) in this step
HandlerEnds(f, handler) ==
  /\ flows[f].handler = handler
  /\ flows'[f].pc = "free"

\* C25: an invocation of handlePreviewTransaction that set isTransferring
\* ends, whatever its exit path, with isTransferring set back to false, so
\* that the Preview button is enabled again.
C25_PreviewResetsIsTransferring ==
  [][\A f \in FlowIds : HandlerEnds(f, "preview") => isTransferring' = FALSE]_vars

\* handleConfirmTransfer does reset the flag on every exit path (finally)
ConfirmResetsIsTransferring ==
  [][\A f \in FlowIds : HandlerEnds(f, "confirm") => isTransferring' = FALSE]_vars

\* no handler invocation is suspended
NothingInFlight == \A f \in FlowIds : flows[f].pc = "free"

\* Navbar.tsx:511, the Preview button is rendered
PreviewRendered == ~showPreview

\* C26: whenever no operation is in flight, the Preview button or the preview
\* panel with its Confirm and Cancel buttons is rendered, also after a
\* transfer was initiated successfully.
C26_NewSessionAlwaysPossible ==
  NothingInFlight => PreviewRendered \/ PanelShown

\* C27: the signer handed to initiateTransfer is bound to the source chain of
\* the stored transfer request, whatever chain changes and swaps were made
\* between preview and confirm.
C27_SignerOnRequestSourceChain ==
  \A f \in FlowIds :
    flows[f].signerChain # "-" => flows[f].signerChain = flows[f].requestSource

\* C28: in the route-selecting Bridge, the amount handed to initiateTransfer
\* on confirm is the amount the quote shown in the preview was computed for,
\* whatever was typed into the amount field (or set by MAX) while the preview
\* was shown.
C28_ConfirmSendsQuotedAmount ==
  variant = "routes" =>
    \A f \in FlowIds :
      flows[f].itAmount # "-" => flows[f].itAmount = flows[f].shownAmount
====
